---------------------------- MODULE Spec2Model ----------------------------
(***************************************************************************)
(* A model of the database gateway of main.py and config_db.py: the        *)
(* connection registry (a sqlite table keyed by alias), the parameter      *)
(* builder, and execute_query with its four engine branches.               *)
(*                                                                         *)
(* The program's state between calls is the registry table and the engine  *)
(* connections that calls left open.  Every tool or registry function is   *)
(* one action; what it returned or raised is recorded in `last`.           *)
(* The engines themselves are the environment: what a statement does on    *)
(* an engine is given by StmtClass/StmtChanges, and whether a step fails   *)
(* and how many rows exist is the input `env` of the action.               *)
(***************************************************************************)
EXTENDS Integers, Sequences, FiniteSets, TLC

(***************************************************************************)
(* Bounds of the model.                                                    *)
(***************************************************************************)
\* most rows a relational statement returns or affects
MaxRows == 2
\* most documents of a collection that match a filter
MaxMatch == 11
\* most engine connections left open that the model counts
MaxOpen == 2

(***************************************************************************)
(* Python values.  Strings, integers, None, dicts, lists and ObjectIds     *)
(* are kept apart by a tag, as Python keeps them apart by type.            *)
(***************************************************************************)
None == [t |-> "none"]

PyStr(s) == [t |-> "str", s |-> s]

\* the 24-character hexadecimal string that spells ObjectId number i
Hex24(i) == [t |-> "str24", oid |-> i]

PyInt(n) == [t |-> "int", n |-> n]

PyDict(d) == [t |-> "dict", d |-> d]

PyList(l) == [t |-> "list", l |-> l]

Oid(i) == [t |-> "oid", oid |-> i]

\* the str built by the f-string "{host}:{port}/{dbname}"
Dsn(host, port, dbname) == [t |-> "fstr", host |-> host, port |-> port, dbname |-> dbname]

EmptyMap == [k \in {} |-> None]

\* Python truthiness: None, "", 0, {} and [] are falsy
Truthy(v) ==
    CASE v.t = "none" -> FALSE
      [] v.t = "str"  -> v.s # ""
      [] v.t = "int"  -> v.n # 0
      [] v.t = "dict" -> DOMAIN v.d # {}
      [] v.t = "list" -> Len(v.l) # 0
      [] OTHER        -> TRUE

\* strings of exactly 24 characters that are not hexadecimal
Len24NonHex == {"zzzzzzzzzzzzzzzzzzzzzzzz"}

\* isinstance(value, str) and len(value) == 24
HasLen24(v) == v.t = "str24" \/ (v.t = "str" /\ v.s \in Len24NonHex)

(***************************************************************************)
(* json.dumps / json.loads of a parameter bag.  The JSON text is modelled  *)
(* as its members: a JSON string, number or null per key.                  *)
(***************************************************************************)
JsonEncodeValue(v) ==
    CASE v.t = "str"   -> [j |-> "string", s |-> v.s]
      [] v.t = "fstr"  -> [j |-> "string", host |-> v.host, port |-> v.port, dbname |-> v.dbname]
      [] v.t = "int"   -> [j |-> "number", n |-> v.n]
      [] v.t = "none"  -> [j |-> "null"]

JsonDecodeValue(x) ==
    CASE x.j = "string" /\ "s" \in DOMAIN x -> PyStr(x.s)
      [] x.j = "string" /\ "s" \notin DOMAIN x -> Dsn(x.host, x.port, x.dbname)
      [] x.j = "number" -> PyInt(x.n)
      [] x.j = "null"   -> None

json_dumps(params) == [k \in DOMAIN params |-> JsonEncodeValue(params[k])]

json_loads(text) == [k \in DOMAIN text |-> JsonDecodeValue(text[k])]

\* dict.get(key): None when the key is absent
DictGet(d, k) == IF k \in DOMAIN d THEN d[k] ELSE None

(***************************************************************************)
(* Inputs.                                                                 *)
(***************************************************************************)
Aliases == {"a1", "a2"}

SupportedTypes == {"postgres", "mysql", "oracle", "mongo"}

SqlTypes == {"postgres", "mysql", "oracle"}

\* "sqlite" stands for any db_type the gateway has no branch for
DbTypes == SupportedTypes \cup {"sqlite"}

Hosts == {None, PyStr("h")}

Ports == {None, PyInt(0), PyInt(1521)}

Users == {None, PyStr("u")}

Passwords == {None, PyStr(""), PyStr("p")}

DbNames == {None, PyStr("d")}

Uris == {None, PyStr("mongodb://m")}

(***************************************************************************)
(* main.py: _build_and_validate_params.  The result is either the bag to   *)
(* store or the ValueError raised.                                         *)
(***************************************************************************)
Ok(v) == [ok |-> TRUE, v |-> v]

Raise(type, msg) == [ok |-> FALSE, exc |-> [type |-> type, msg |-> msg]]

\* all([host, port, user, password, dbname])
AllTruthy(vs) == \A i \in 1..Len(vs) : Truthy(vs[i])

\* a faulty variant of the builder: the password is not among the fields checked
build_without_password_check(db_type, host, port, user, password, dbname, uri) ==
    IF db_type = "mongo" THEN
        IF ~Truthy(uri) \/ ~Truthy(dbname)
        THEN Raise(<<"builtins", "ValueError">>, <<"For MongoDB, 'uri' and 'dbname' are required.">>)
        ELSE Ok([uri |-> uri, dbname |-> dbname])
    ELSE IF db_type \in {"postgres", "mysql", "oracle"} THEN
        IF ~AllTruthy(<<host, port, user, dbname>>)
        THEN Raise(<<"builtins", "ValueError">>,
                   <<"For ", db_type, ", 'host', 'port', 'user', 'password', and 'dbname' are required.">>)
        ELSE IF db_type = "mysql"
             THEN Ok([host |-> host, port |-> port, user |-> user,
                      password |-> password, database |-> dbname])
        ELSE IF db_type = "oracle"
             THEN Ok([user |-> user, password |-> password,
                      dsn |-> Dsn(host, port, dbname)])
        ELSE Ok([host |-> host, port |-> port, user |-> user,
                 password |-> password, dbname |-> dbname])
    ELSE Raise(<<"builtins", "ValueError">>, <<"Unsupported database type: ", db_type>>)

build_and_validate_params(db_type, host, port, user, password, dbname, uri) ==
    IF db_type = "mongo" THEN
        IF ~Truthy(uri) \/ ~Truthy(dbname)
        THEN Raise(<<"builtins", "ValueError">>, <<"For MongoDB, 'uri' and 'dbname' are required.">>)
        ELSE Ok([uri |-> uri, dbname |-> dbname])
    ELSE IF db_type \in {"postgres", "mysql", "oracle"} THEN
        IF ~AllTruthy(<<host, port, user, password, dbname>>)
        THEN Raise(<<"builtins", "ValueError">>,
                   <<"For ", db_type, ", 'host', 'port', 'user', 'password', and 'dbname' are required.">>)
        ELSE IF db_type = "mysql"
             THEN Ok([host |-> host, port |-> port, user |-> user,
                      password |-> password, database |-> dbname])
        ELSE IF db_type = "oracle"
             THEN Ok([user |-> user, password |-> password,
                      dsn |-> Dsn(host, port, dbname)])
        ELSE Ok([host |-> host, port |-> port, user |-> user,
                 password |-> password, dbname |-> dbname])
    ELSE Raise(<<"builtins", "ValueError">>, <<"Unsupported database type: ", db_type>>)


(***************************************************************************)
(* config_db.py: the connections table.  A table is a function from the    *)
(* aliases stored to rows (db_type, params_json); alias is the primary key.*)
(***************************************************************************)
EmptyTable == [a \in {} |-> None]

\* a faulty variant of the insert: INSERT OR IGNORE keeps the row already stored
InsertOrIgnore(table, alias, db_type, params_json) ==
    [a \in DOMAIN table \cup {alias} |->
        IF a \in DOMAIN table THEN table[a]
        ELSE [db_type |-> db_type, params_json |-> params_json]]

\* INSERT OR REPLACE INTO connections (alias, db_type, params_json)
InsertOrReplace(table, alias, db_type, params_json) ==
    [a \in DOMAIN table \cup {alias} |->
        IF a = alias THEN [db_type |-> db_type, params_json |-> params_json]
        ELSE table[a]]

\* a faulty variant of the delete: the WHERE clause is missing
DeleteAllRows(table, alias) == IF alias \in DOMAIN table THEN EmptyTable ELSE table

\* DELETE FROM connections WHERE alias = ?
DeleteRow(table, alias) == [a \in DOMAIN table \ {alias} |-> table[a]]

\* cursor.rowcount of the DELETE
DeleteRowCount(table, alias) == IF alias \in DOMAIN table THEN 1 ELSE 0

add_connection(table, alias, db_type, params) ==
    InsertOrReplace(table, alias, db_type, json_dumps(params))

remove_connection(table, alias) ==
    [table |-> DeleteRow(table, alias), ret |-> DeleteRowCount(table, alias) > 0]

\* the dict built from a row
RowInfo(row) ==
    LET params == json_loads(row.params_json) IN
    IF row.db_type = "mongo"
    THEN [type |-> row.db_type, uri |-> DictGet(params, "uri"),
          dbname |-> DictGet(params, "dbname")]
    ELSE [type |-> row.db_type, conn_params |-> params]

get_connection(table, alias) ==
    IF alias \in DOMAIN table THEN RowInfo(table[alias]) ELSE None

get_all_connections(table) == [a \in DOMAIN table |-> RowInfo(table[a])]


(***************************************************************************)
(* The engines (the environment of execute_query).                         *)
(*                                                                         *)
(* env.fail names the step of the call at which the engine or the network  *)
(* fails ("none": nowhere); env.n is the number of rows the statement      *)
(* returns or affects, or of documents that match the filter.              *)
(***************************************************************************)
Fails == {"none", "connect", "schema", "execute", "commit"}

SelectText == "SELECT * FROM t"

InsertText == "INSERT INTO t VALUES (1)"

\* a mutation that also returns rows
InsertReturningText == "INSERT INTO t VALUES (1) RETURNING id"

EmptyFilterText == "{}"

CampaignFilterText == "{\"campaign\": \"6850982849bcd9c1f6633874\"}"

JsonListText == "[1]"

QueryTexts ==
    {SelectText, InsertText, InsertReturningText, EmptyFilterText,
     CampaignFilterText, JsonListText, ""}

QueryDicts ==
    {PyDict(EmptyMap),
     PyDict("campaign" :> Hex24(1)),
     PyDict("_id" :> PyDict("$oid" :> Hex24(1))),
     PyDict("name" :> PyStr("zzzzzzzzzzzzzzzzzzzzzzzz"))}

Queries == {PyStr(s) : s \in QueryTexts} \cup QueryDicts

Params == {None, PyDict("user_id" :> PyInt(123))}

Collections == {None, PyStr("optins")}

Schemas == {None, PyStr("HR")}

Exc(type, msg) == [type |-> type, msg |-> msg]

NoExc == Exc(<< >>, << >>)

\* What the engine answers to cursor.execute(query): "rows" (a result
\* descriptor is reported), "norows" (none is) or "error" (it raises).
\* INSERT ... RETURNING reports a descriptor on PostgreSQL and on MariaDB
\* (reached through the mysql driver); Oracle rejects it.
StmtClass(db_type, query) ==
    IF query.t # "str" THEN "error"
    ELSE IF query.s = SelectText THEN "rows"
    ELSE IF query.s = InsertText THEN "norows"
    ELSE IF query.s = InsertReturningText /\ db_type \in {"postgres", "mysql"} THEN "rows"
    ELSE "error"

\* the number of rows the statement changes in the engine
StmtChanges(db_type, query, env) ==
    IF query.t = "str" /\ query.s \in {InsertText, InsertReturningText}
       /\ StmtClass(db_type, query) # "error"
    THEN env.n ELSE 0

ErrorModule(db_type) ==
    CASE db_type = "postgres" -> "psycopg2"
      [] db_type = "mysql"    -> "mysql.connector"
      [] db_type = "oracle"   -> "oracledb"
      [] OTHER                -> "pymongo"

ConnectError(db_type) == Exc(<<ErrorModule(db_type), "OperationalError">>, <<"connection refused">>)

ExecuteError(db_type, query) ==
    IF query.t # "str"
    THEN Exc(<<"builtins", "TypeError">>, <<"query must be a string">>)
    ELSE Exc(<<ErrorModule(db_type), "ProgrammingError">>, <<"statement failed: ", query.s>>)

SchemaError(db_type, oracle_schema) ==
    Exc(<<ErrorModule(db_type), "DatabaseError">>, <<"invalid schema: ", oracle_schema.s>>)

CommitError(db_type) == Exc(<<ErrorModule(db_type), "DatabaseError">>, <<"commit failed">>)

\* cursor.description[i][0]: Oracle reports unquoted names in upper case
DescrName(db_type) == IF db_type = "oracle" THEN "ID" ELSE "id"

\* str.lower()
Lower(s) == IF s = "ID" THEN "id" ELSE s

\* fetchall() with dict rows keyed by the names given
FetchAll(name, n) == [i \in 1..n |-> (name :> PyInt(i))]

(***************************************************************************)
(* One run of an engine branch: what it raised or returned, the connections*)
(* it opened and closed, and the transaction of its connection.            *)
(*   pending: changes made in the open transaction, not yet committed      *)
(*   changed: all changes the statement made                               *)
(*   durable: the changes that were committed                              *)
(***************************************************************************)
BaseRun ==
    [exc |-> NoExc, returned |-> FALSE, data |-> << >>, row_count |-> 0,
     error |-> FALSE, opened |-> 0, closed |-> 0, in_txn |-> FALSE,
     pending |-> 0, changed |-> 0, durable |-> 0, descr |-> FALSE,
     find_issued |-> FALSE, filter |-> None, matched |-> 0]

Connected(run) == [run EXCEPT !.opened = @ + 1]

Raised(run, exc) == [run EXCEPT !.exc = exc, !.returned = FALSE]

Returned(run, data, row_count) ==
    [run EXCEPT !.returned = TRUE, !.data = data, !.row_count = row_count]

\* cursor.execute(query, params) of a statement the engine accepts
Executed(run, db_type, query, env) ==
    [run EXCEPT !.in_txn = TRUE,
                !.pending = @ + StmtChanges(db_type, query, env),
                !.changed = @ + StmtChanges(db_type, query, env),
                !.descr = (StmtClass(db_type, query) = "rows")]

\* conn.commit()
Commit(run) == [run EXCEPT !.durable = @ + run.pending, !.pending = 0, !.in_txn = FALSE]

\* conn.rollback()
Rollback(run) == [run EXCEPT !.pending = 0, !.in_txn = FALSE]

\* conn.close(): the engine rolls back what was not committed
Close(run) == [Rollback(run) EXCEPT !.closed = @ + 1]

\* psycopg2's connection as a context manager: on leaving the block it commits
\* (or rolls back, if the block raised) and leaves the connection open
PsycopgExit(run, env) ==
    IF run.exc # NoExc THEN Rollback(run)
    ELSE IF env.fail = "commit" THEN Rollback(Raised(run, CommitError("postgres")))
    ELSE Commit(run)

\* mysql.connector's connection as a context manager: it closes on leaving
MysqlExit(run) == Close(run)

\* oracledb's connection as a context manager: it closes on leaving
OracleExit(run) == Close(run)

\* the block under `with psycopg2.connect(...)`
PostgresBody(run, query, params, env) ==
    IF env.fail = "execute" \/ StmtClass("postgres", query) = "error"
    THEN Raised(run, ExecuteError("postgres", query))
    ELSE LET r == Executed(run, "postgres", query, env) IN
         IF r.descr
         THEN LET result == FetchAll(DescrName("postgres"), env.n) IN
              Returned(r, result, Len(result))
         ELSE IF env.fail = "commit"
              THEN Raised(r, CommitError("postgres"))
              ELSE Returned(Commit(r), << >>, env.n)

PostgresBranch(db_info, query, params, env) ==
    IF env.fail = "connect"
    THEN Raised(BaseRun, ConnectError("postgres"))
    ELSE PsycopgExit(PostgresBody(Connected(BaseRun), query, params, env), env)

\* a faulty variant of the mysql block: a statement without rows answers
\* len(result) of an empty result, not cursor.rowcount
MysqlBodyCountsResult(run, query, params, env) ==
    IF env.fail = "execute" \/ StmtClass("mysql", query) = "error"
    THEN Raised(run, ExecuteError("mysql", query))
    ELSE LET r == Executed(run, "mysql", query, env) IN
         IF r.descr
         THEN LET result == FetchAll(DescrName("mysql"), env.n) IN
              Returned(r, result, Len(result))
         ELSE IF env.fail = "commit"
              THEN Raised(r, CommitError("mysql"))
              ELSE Returned(Commit(r), << >>, Len(<< >>))

\* the block under `with mysql.connector.connect(...)`
MysqlBody(run, query, params, env) ==
    IF env.fail = "execute" \/ StmtClass("mysql", query) = "error"
    THEN Raised(run, ExecuteError("mysql", query))
    ELSE LET r == Executed(run, "mysql", query, env) IN
         IF r.descr
         THEN LET result == FetchAll(DescrName("mysql"), env.n) IN
              Returned(r, result, Len(result))
         ELSE IF env.fail = "commit"
              THEN Raised(r, CommitError("mysql"))
              ELSE Returned(Commit(r), << >>, env.n)

MysqlBranch(db_info, query, params, env) ==
    IF env.fail = "connect"
    THEN Raised(BaseRun, ConnectError("mysql"))
    ELSE MysqlExit(MysqlBody(Connected(BaseRun), query, params, env))

\* the block under `with oracledb.connect(...)`
OracleBody(run, query, params, oracle_schema, env) ==
    IF Truthy(oracle_schema) /\ env.fail = "schema"
    THEN Raised(run, SchemaError("oracle", oracle_schema))
    ELSE IF env.fail = "execute" \/ StmtClass("oracle", query) = "error"
    THEN Raised(run, ExecuteError("oracle", query))
    ELSE LET r == Executed(run, "oracle", query, env) IN
         IF r.descr
         THEN LET result == FetchAll(Lower(DescrName("oracle")), env.n) IN
              Returned(r, result, Len(result))
         ELSE IF env.fail = "commit"
              THEN Raised(r, CommitError("oracle"))
              ELSE Returned(Commit(r), << >>, env.n)

OracleBranch(db_info, query, params, oracle_schema, env) ==
    IF env.fail = "connect"
    THEN Raised(BaseRun, ConnectError("oracle"))
    ELSE OracleExit(OracleBody(Connected(BaseRun), query, params, oracle_schema, env))


(***************************************************************************)
(* The document store.                                                     *)
(***************************************************************************)
\* the cap on returned documents
FindLimit == 10

\* json.loads(query) of the query texts: Raise where the text is not JSON
json_loads_text(s) ==
    CASE s = EmptyFilterText    -> Ok(PyDict(EmptyMap))
      [] s = CampaignFilterText -> Ok(PyDict("campaign" :> Hex24(1)))
      [] s = JsonListText       -> Ok(PyList(<<PyInt(1)>>))
      [] OTHER                  -> Raise(<<"json", "JSONDecodeError">>, <<"Expecting value">>)

\* ObjectId(value)
ObjectId(value) ==
    IF value.t = "str24" THEN Ok(Oid(value.oid))
    ELSE IF value.t = "oid" THEN Ok(value)
    ELSE Raise(<<"bson.errors", "InvalidId">>, <<"not a valid ObjectId">>)

RECURSIVE convert_objectid_strings(_)
convert_objectid_strings(obj) ==
    IF obj.t # "dict" THEN obj
    ELSE PyDict([key \in DOMAIN obj.d |->
            LET value == obj.d[key] IN
            IF value.t = "dict" /\ "$oid" \in DOMAIN value.d
            THEN (IF ObjectId(value.d["$oid"]).ok
                  THEN ObjectId(value.d["$oid"]).v ELSE value)
            ELSE IF HasLen24(value)
            THEN (IF ObjectId(value).ok THEN ObjectId(value).v ELSE value)
            ELSE IF value.t = "dict"
            THEN convert_objectid_strings(value)
            ELSE IF value.t = "list"
            THEN PyList([i \in 1..Len(value.l) |->
                    IF value.l[i].t = "dict"
                    THEN convert_objectid_strings(value.l[i]) ELSE value.l[i]])
            ELSE value])

\* the documents of the collection that match the filter: env.n of them
Matching(n) == [i \in 1..n |-> ("_id" :> Oid(i))]

\* a faulty variant of the cursor: the limit is not applied
LimitIgnored(docs, k) == docs

\* cursor.limit(k)
Limit(docs, k) == IF Len(docs) <= k THEN docs ELSE SubSeq(docs, 1, k)

\* json.loads(json_util.dumps(docs)): an ObjectId becomes {"$oid": hex}
ExtendedJson(docs) ==
    [i \in 1..Len(docs) |->
        [key \in DOMAIN docs[i] |->
            IF docs[i][key].t = "oid"
            THEN PyDict("$oid" :> Hex24(docs[i][key].oid))
            ELSE docs[i][key]]]

\* the parse of the query into query_dict
QueryDict(query) ==
    IF query.t = "str"
    THEN (IF json_loads_text(query.s).ok THEN json_loads_text(query.s).v ELSE query)
    ELSE query

\* the filter handed to find()
FilterQuery(query_dict) ==
    convert_objectid_strings(IF query_dict.t = "dict" THEN query_dict ELSE PyDict(EmptyMap))

\* the guard "if not query_dict or query_dict == {}"
IsEmptyQuery(query_dict) == ~Truthy(query_dict) \/ query_dict = PyDict(EmptyMap)

\* mongo_collection.find(filter_query).limit(10), dumped and reloaded
Find(run, filter_query, env) ==
    LET r == [run EXCEPT !.find_issued = TRUE, !.filter = filter_query,
                         !.matched = env.n] IN
    IF env.fail = "execute"
    THEN Raised(r, Exc(<<"pymongo", "OperationFailure">>, <<"find failed">>))
    ELSE [r EXCEPT !.data = ExtendedJson(Limit(Matching(env.n), FindLimit))]

\* client.close()
ClientClose(run) == [run EXCEPT !.closed = @ + 1]

MongoBranch(db_info, query, collection, env) ==
    IF env.fail = "connect"
    THEN Raised(BaseRun, Exc(<<"pymongo", "ConfigurationError">>, <<"invalid uri">>))
    ELSE LET client == Connected(BaseRun) IN
         IF ~Truthy(collection)
         THEN Raised(client, Exc(<<"builtins", "ValueError">>,
                        <<"MongoDB query requires a 'collection' to be specified.">>))
         ELSE LET query_dict == QueryDict(query) IN
              IF IsEmptyQuery(query_dict)
              THEN [Returned(client, << >>, 0) EXCEPT !.error = TRUE]
              ELSE LET found == Find(client, FilterQuery(query_dict), env) IN
                   IF found.exc # NoExc THEN found
                   ELSE Returned(ClientClose(found), found.data, Len(found.data))

(***************************************************************************)
(* main.py: execute_query.                                                 *)
(***************************************************************************)
\* the body of the try block: the branch chosen by the stored db_type
TryBlock(db_info, query, params, collection, oracle_schema, env) ==
    CASE db_info.type = "postgres" -> PostgresBranch(db_info, query, params, env)
      [] db_info.type = "mysql"    -> MysqlBranch(db_info, query, params, env)
      [] db_info.type = "mongo"    -> MongoBranch(db_info, query, collection, env)
      [] db_info.type = "oracle"   -> OracleBranch(db_info, query, params, oracle_schema, env)
      [] OTHER -> Raised(BaseRun, Exc(<<"builtins", "ValueError">>,
                            <<"Unsupported database type: ", db_info.type>>))

\* a faulty variant of the handler: the message of the cause is dropped
WrapDropsMessage(run) ==
    IF run.exc # NoExc
    THEN Raised(run, Exc(<<"builtins", "RuntimeError">>, <<"Query execution failed">>))
    ELSE run

\* except Exception as e: raise RuntimeError(...) from e
Wrap(run) ==
    IF run.exc # NoExc
    THEN Raised(run, Exc(<<"builtins", "RuntimeError">>,
                         <<"Query execution failed: ">> \o run.exc.msg))
    ELSE run

\* a faulty variant of the call: the lookup failure is raised inside the try block
ExecuteQueryLookupInTry(table, database_alias, query, params, collection, oracle_schema, env) ==
    LET db_info == get_connection(table, database_alias) IN
    IF db_info = None
    THEN [final |-> Wrap(Raised(BaseRun, Exc(<<"builtins", "ValueError">>,
                       <<"Database alias '", database_alias, "' not found in configuration.">>))),
          inner |-> BaseRun, looked_up |-> None]
    ELSE LET run == TryBlock(db_info, query, params, collection, oracle_schema, env) IN
         [final |-> Wrap(run), inner |-> run, looked_up |-> db_info]

\* the whole call: the exception that reaches the caller (or NoExc and the
\* returned dict), with the run of the engine branch
ExecuteQuery(table, database_alias, query, params, collection, oracle_schema, env) ==
    LET db_info == get_connection(table, database_alias) IN
    IF db_info = None
    THEN [final |-> Raised(BaseRun, Exc(<<"builtins", "ValueError">>,
                       <<"Database alias '", database_alias, "' not found in configuration.">>)),
          inner |-> BaseRun, looked_up |-> None]
    ELSE LET run == TryBlock(db_info, query, params, collection, oracle_schema, env) IN
         [final |-> Wrap(run), inner |-> run, looked_up |-> db_info]


(***************************************************************************)
(* The state machine.                                                      *)
(*   registry   the connections table of mcp_config.sqlite3               *)
(*   openConns  engine connections and clients that calls left open        *)
(*   last       the call just made, with its arguments and its outcome,    *)
(*              until the caller has taken the answer ("none": no call)    *)
(***************************************************************************)
VARIABLES registry, openConns, last

vars == <<registry, openConns, last>>

NoCall == [op |-> "none", alias |-> "", args |-> << >>, exc |-> NoExc,
           ret |-> None, run |-> BaseRun, looked_up |-> None]

Call(op, alias, args, exc, ret) ==
    [op |-> op, alias |-> alias, args |-> args, exc |-> exc, ret |-> ret,
     run |-> BaseRun, looked_up |-> None]

\* init_db(): CREATE TABLE IF NOT EXISTS on a fresh file
Init ==
    /\ registry = EmptyTable
    /\ openConns = 0
    /\ last = NoCall

list_aliases ==
    /\ last.op = "none"
    /\ LET db_configs == get_all_connections(registry) IN
       last' = Call("list_aliases", "", << >>, NoExc,
                    [aliases |-> {[alias |-> a, type |-> db_configs[a].type] :
                                      a \in DOMAIN db_configs}])
    /\ UNCHANGED <<registry, openConns>>

add_database(alias, db_type, host, port, user, password, dbname, uri) ==
    /\ last.op = "none"
    /\ \E built \in {build_and_validate_params(db_type, host, port, user, password, dbname, uri)},
          args \in {[db_type |-> db_type, host |-> host, port |-> port, user |-> user,
                     password |-> password, dbname |-> dbname, uri |-> uri]} :
          IF built.ok
          THEN /\ registry' = add_connection(registry, alias, db_type, built.v)
               /\ last' = Call("add_database", alias, args, NoExc,
                               [status |-> <<"Database '", alias, "' added successfully.">>])
          ELSE /\ registry' = registry
               /\ last' = Call("add_database", alias, args, built.exc, None)
    /\ UNCHANGED openConns

remove_database(alias) ==
    /\ last.op = "none"
    /\ LET removed == remove_connection(registry, alias) IN
       /\ registry' = removed.table
       /\ last' = IF removed.ret
                  THEN Call("remove_database", alias, << >>, NoExc,
                            [status |-> <<"Database '", alias, "' removed successfully.">>])
                  ELSE Call("remove_database", alias, << >>,
                            Exc(<<"builtins", "ValueError">>,
                                <<"Database alias '", alias, "' not found.">>), None)
    /\ UNCHANGED openConns

\* list_collections: the client is closed only when list_collection_names returns
ListCollectionsRun(db_info, env) ==
    IF env.fail = "connect"
    THEN Raised(BaseRun, Exc(<<"pymongo", "ConfigurationError">>, <<"invalid uri">>))
    ELSE IF env.fail = "execute"
    THEN Raised(Connected(BaseRun), Exc(<<"pymongo", "ServerSelectionTimeoutError">>, <<"no servers">>))
    ELSE Returned(ClientClose(Connected(BaseRun)), <<"optins">>, 1)

list_collections(database_alias, env) ==
    /\ last.op = "none"
    /\ LET db_info == get_connection(registry, database_alias)
           run == IF db_info = None
                  THEN Raised(BaseRun, Exc(<<"builtins", "ValueError">>,
                         <<"Database alias '", database_alias, "' not found in configuration.">>))
                  ELSE IF db_info.type # "mongo"
                  THEN Raised(BaseRun, Exc(<<"builtins", "ValueError">>,
                         <<"Alias '", database_alias, "' is not a MongoDB database.">>))
                  ELSE LET r == ListCollectionsRun(db_info, env) IN
                       IF r.exc # NoExc
                       THEN Raised(r, Exc(<<"builtins", "RuntimeError">>,
                              <<"Failed to list collections for '", database_alias, "': ">>
                                  \o r.exc.msg))
                       ELSE r
       IN /\ openConns + run.opened - run.closed <= MaxOpen
          /\ openConns' = openConns + run.opened - run.closed
          /\ last' = [Call("list_collections", database_alias, [env |-> env], run.exc,
                           IF run.returned THEN [collections |-> run.data] ELSE None)
                        EXCEPT !.run = run, !.looked_up = db_info]
    /\ UNCHANGED registry

execute_query(database_alias, query, params, collection, oracle_schema, env) ==
    /\ last.op = "none"
    /\ \E out \in {ExecuteQuery(registry, database_alias, query, params, collection,
                                 oracle_schema, env)} :
          /\ openConns + out.final.opened - out.final.closed <= MaxOpen
          /\ openConns' = openConns + out.final.opened - out.final.closed
          /\ last' = [op |-> "execute_query", alias |-> database_alias,
                      args |-> [query |-> query, params |-> params,
                                collection |-> collection,
                                oracle_schema |-> oracle_schema, env |-> env],
                      exc |-> out.final.exc,
                      ret |-> IF out.final.returned
                              THEN [data |-> out.final.data,
                                    row_count |-> out.final.row_count,
                                    error |-> out.final.error]
                              ELSE None,
                      run |-> out.inner, looked_up |-> out.looked_up]
    /\ UNCHANGED registry

\* config_db called directly (as main_cli does for add-db and remove-db)
add_connection_call(alias, db_type, params) ==
    /\ last.op = "none"
    /\ registry' = add_connection(registry, alias, db_type, params)
    /\ last' = Call("add_connection", alias, [db_type |-> db_type, params |-> params],
                    NoExc, None)
    /\ UNCHANGED openConns

remove_connection_call(alias) ==
    /\ last.op = "none"
    /\ registry' = remove_connection(registry, alias).table
    /\ last' = Call("remove_connection", alias, << >>, NoExc,
                    [bool |-> remove_connection(registry, alias).ret])
    /\ UNCHANGED openConns

get_connection_call(alias) ==
    /\ last.op = "none"
    /\ last' = Call("get_connection", alias, << >>, NoExc,
                    [info |-> get_connection(registry, alias)])
    /\ UNCHANGED <<registry, openConns>>

\* the caller takes the answer; the gateway holds nothing of the call
TakeAnswer ==
    /\ last.op # "none"
    /\ last' = NoCall
    /\ UNCHANGED <<registry, openConns>>

\* the bags the parameter builder produces for a supported type; any bag
\* may be stored under a type the gateway has no branch for
BagsOf(db_type) ==
    IF db_type \in SupportedTypes
    THEN {build_and_validate_params(db_type, PyStr("h"), PyInt(1521), PyStr("u"),
                                    PyStr("p"), PyStr("d"), PyStr("mongodb://m")).v}
    ELSE {[path |-> PyStr("f.db")]}

\* the engine inputs that matter to a call on this alias
EnvsOf(table, alias) ==
    LET type == IF alias \in DOMAIN table THEN table[alias].db_type ELSE "" IN
    IF type \in SqlTypes
    THEN {[fail |-> f, n |-> 1] : f \in Fails \ {"none"}}
             \cup {[fail |-> "none", n |-> k] : k \in 0..MaxRows}
    ELSE IF type = "mongo"
    THEN {[fail |-> f, n |-> 1] : f \in {"connect", "execute"}}
             \cup {[fail |-> "none", n |-> k] : k \in 0..MaxMatch}
    ELSE {[fail |-> "none", n |-> 0]}

\* no call is being answered
Idle == last.op = "none"

\* one call at a time: the next call is made once the answer has been taken
Next ==
    \/ Idle /\ list_aliases
    \/ Idle /\ \E alias \in Aliases, db_type \in DbTypes, host \in Hosts, port \in Ports,
          user \in Users, password \in Passwords, dbname \in DbNames, uri \in Uris :
          add_database(alias, db_type, host, port, user, password, dbname, uri)
    \/ Idle /\ \E alias \in Aliases : remove_database(alias)
    \/ Idle /\ \E alias \in Aliases : \E env \in EnvsOf(registry, alias) :
          list_collections(alias, env)
    \/ Idle /\ \E alias \in Aliases, query \in Queries, params \in Params,
          collection \in Collections, oracle_schema \in Schemas :
          \E env \in EnvsOf(registry, alias) :
             execute_query(alias, query, params, collection, oracle_schema, env)
    \/ Idle /\ \E alias \in Aliases, db_type \in DbTypes :
          \E params \in BagsOf(db_type) : add_connection_call(alias, db_type, params)
    \/ Idle /\ \E alias \in Aliases : remove_connection_call(alias)
    \/ Idle /\ \E alias \in Aliases : get_connection_call(alias)
    \/ TakeAnswer

Spec == Init /\ [][Next]_vars



(***************************************************************************)
(* Vocabulary of the properties.                                           *)
(***************************************************************************)
ValueError == <<"builtins", "ValueError">>

RuntimeError == <<"builtins", "RuntimeError">>

IsExecute == last.op = "execute_query"

\* the alias of the last execute_query is in the registry (execute_query
\* never writes the registry, so this is the registry the call read)
AliasKnown == last.alias \in DOMAIN registry

StoredType == registry[last.alias].db_type

Succeeded == last.exc = NoExc /\ last.ret # None

\* the statement makes a change in the engine
IsMutation(db_type, query) ==
    /\ db_type \in SqlTypes
    /\ query.t = "str" /\ query.s \in {InsertText, InsertReturningText}

\* the statement only reads: a SELECT, or anything on the find-only document store
IsRead(db_type, query) ==
    \/ db_type = "mongo"
    \/ db_type \in SqlTypes /\ query.t = "str" /\ query.s = SelectText

\* the keys of the bag stored for an engine kind
BagKeys(db_type) ==
    CASE db_type = "mongo"    -> {"uri", "dbname"}
      [] db_type = "mysql"    -> {"host", "port", "user", "password", "database"}
      [] db_type = "postgres" -> {"host", "port", "user", "password", "dbname"}
      [] db_type = "oracle"   -> {"user", "password", "dsn"}

\* the parameter bag a get_connection answer carries
InfoParams(info) ==
    IF info.type = "mongo" THEN [uri |-> info.uri, dbname |-> info.dbname]
    ELSE info.conn_params

\* the fields add_database requires for an engine kind
Required(db_type) ==
    IF db_type = "mongo" THEN {"uri", "dbname"}
    ELSE {"host", "port", "user", "password", "dbname"}

\* an add_database request with an unsupported kind or a required field missing
InvalidAdd(args) ==
    \/ args.db_type \notin SupportedTypes
    \/ \E f \in Required(args.db_type) : args[f] = None

(***************************************************************************)
(* C1.  As stated: every successful execute_query, on any engine kind,     *)
(* answers row_count = length(data) for a read, and data = [] with         *)
(* row_count = the engine's affected-row count for a mutation.             *)
(***************************************************************************)
C1_AsStated ==
    (IsExecute /\ AliasKnown /\ Succeeded) =>
        /\ IsRead(StoredType, last.args.query) =>
              last.ret.row_count = Len(last.ret.data)
        /\ IsMutation(StoredType, last.args.query) =>
              /\ last.ret.data = << >>
              /\ last.ret.row_count = last.args.env.n

(***************************************************************************)
(* C1, amended.  Every successful execute_query answers row_count =        *)
(* length(data) whenever the engine reports a result descriptor for the    *)
(* statement (a read, a row-returning mutation) and on the document store; *)
(* when the engine reports no descriptor, data is empty and row_count is   *)
(* the affected-row count the engine reports.                              *)
(***************************************************************************)
C1_RowCountMatchesEngine ==
    (IsExecute /\ AliasKnown /\ Succeeded) =>
        IF StoredType \in SqlTypes /\ StmtClass(StoredType, last.args.query) = "norows"
        THEN /\ last.ret.data = << >>
             /\ last.ret.row_count = last.args.env.n
        ELSE last.ret.row_count = Len(last.ret.data)

C1_Witness ==
    /\ IsExecute /\ AliasKnown /\ Succeeded
    /\ StoredType = "mysql"
    /\ last.args.query = PyStr(InsertText)
    /\ last.ret.row_count = 2

(***************************************************************************)
(* C2.  execute_query on an alias that is not in the registry raises the   *)
(* not-found ValueError, whatever query, params, collection and            *)
(* oracle_schema are; it returns nothing, never raises RuntimeError, and   *)
(* touches no engine.                                                      *)
(***************************************************************************)
C2_UnknownAliasNotFound ==
    (IsExecute /\ ~AliasKnown) =>
        /\ last.exc = Exc(ValueError, <<"Database alias '", last.alias,
                                        "' not found in configuration.">>)
        /\ last.ret = None
        /\ last.run = BaseRun

C2_Witness ==
    /\ IsExecute /\ ~AliasKnown
    /\ last.args.query = PyStr(InsertText)
    /\ last.args.collection = PyStr("optins")
    /\ last.args.oracle_schema = PyStr("HR")
    /\ registry # EmptyTable

(***************************************************************************)
(* C3.  For an alias in the registry, whatever fails after the lookup (an  *)
(* unsupported stored kind, any exception raised in the engine branch)     *)
(* reaches the caller as RuntimeError carrying the message of the cause;   *)
(* no other exception type reaches the caller, and a call in which the     *)
(* engine failed returns no result.                                        *)
(***************************************************************************)
C3_FailuresWrapped ==
    (IsExecute /\ AliasKnown) =>
        /\ last.exc.type \in {NoExc.type, RuntimeError}
        /\ StoredType \notin SupportedTypes =>
              last.exc = Exc(RuntimeError, <<"Query execution failed: ",
                                             "Unsupported database type: ", StoredType>>)
        /\ last.run.exc # NoExc =>
              /\ last.exc = Exc(RuntimeError,
                                <<"Query execution failed: ">> \o last.run.exc.msg)
              /\ last.ret = None
        /\ (\/ last.args.env.fail = "connect"
            \/ last.args.env.fail = "execute" /\ StoredType \in SqlTypes) =>
              /\ last.exc.type = RuntimeError
              /\ last.ret = None

C3_Witness ==
    /\ IsExecute /\ AliasKnown
    /\ StoredType = "oracle"
    /\ last.run.exc.type = <<"oracledb", "DatabaseError">>
    /\ last.exc.type = RuntimeError

(***************************************************************************)
(* C4.  As stated: a document-store execute_query never issues a find with *)
(* an empty filter: whenever the filter it would execute is empty, it      *)
(* returns row_count = 0 and issues no find.                               *)
(***************************************************************************)
C4_EmptyFilterNeverExecuted ==
    (IsExecute /\ AliasKnown /\ StoredType = "mongo"
        /\ Truthy(last.args.collection) /\ last.args.env.fail = "none"
        /\ FilterQuery(QueryDict(last.args.query)) = PyDict(EmptyMap)) =>
        /\ ~last.run.find_issued
        /\ Succeeded
        /\ last.ret.row_count = 0

(***************************************************************************)
(* C5.  A document-store execute_query that returns answers at most 10     *)
(* documents, however many match the filter.                               *)
(***************************************************************************)
C5_AtMostTenDocuments ==
    (IsExecute /\ AliasKnown /\ StoredType = "mongo" /\ Succeeded) =>
        /\ Len(last.ret.data) <= 10
        /\ last.ret.row_count <= 10

C5_Witness ==
    /\ IsExecute /\ AliasKnown /\ StoredType = "mongo" /\ Succeeded
    /\ last.run.matched > 10
    /\ Len(last.ret.data) = 10

(***************************************************************************)
(* C6.  As stated: every connection or client an execute_query call opens  *)
(* is released when the call returns or raises, on every exit path.        *)
(***************************************************************************)
C6_ConnectionsReleased ==
    IsExecute => last.run.closed = last.run.opened

(***************************************************************************)
(* C7.  As stated: every change a successful execute_query makes on a      *)
(* relational engine is committed before the call returns, and no          *)
(* transaction is left open.                                               *)
(***************************************************************************)
C7_MutationsCommitted ==
    (IsExecute /\ AliasKnown /\ Succeeded /\ StoredType \in SqlTypes) =>
        /\ last.run.durable = last.run.changed
        /\ last.run.pending = 0
        /\ ~last.run.in_txn

(***************************************************************************)
(* C8.  add_database with an unsupported kind, or with a field its kind    *)
(* requires missing, raises ValueError and leaves the registry as it was;  *)
(* and whatever add_database stores is a complete bag for its kind.        *)
(***************************************************************************)
C8_InvalidAddChangesNothing ==
    /\ [][(last'.op = "add_database" /\ last.op = "none" /\ InvalidAdd(last'.args)) =>
            /\ last'.exc.type = ValueError
            /\ registry' = registry]_vars
    /\ []((last.op = "add_database" /\ last.exc = NoExc) =>
            /\ ~InvalidAdd(last.args)
            /\ last.alias \in DOMAIN registry
            /\ registry[last.alias].db_type = last.args.db_type
            /\ DOMAIN registry[last.alias].params_json = BagKeys(last.args.db_type)
            /\ \A k \in DOMAIN registry[last.alias].params_json :
                   registry[last.alias].params_json[k].j # "null")

C8_Witness ==
    /\ last.op = "add_database"
    /\ last.args.db_type = "oracle"
    /\ last.args.password = None
    /\ last.args.host # None /\ last.args.port # None /\ last.args.user # None
    /\ last.args.dbname # None
    /\ last.exc.type = ValueError
    /\ last.alias \in DOMAIN registry

(***************************************************************************)
(* C9.  After add_connection(alias, kind, bag), get_connection(alias)      *)
(* answers the same kind and exactly that bag, with nothing of an entry    *)
(* stored before under the alias, and the entries of the other aliases     *)
(* are as they were.                                                       *)
(***************************************************************************)
C9_UpsertThenGet ==
    /\ []((last.op = "add_connection") =>
            /\ get_connection(registry, last.alias) # None
            /\ get_connection(registry, last.alias).type = last.args.db_type
            /\ InfoParams(get_connection(registry, last.alias)) = last.args.params)
    /\ [][(last'.op = "add_connection" /\ last.op = "none") =>
            /\ DOMAIN registry' = DOMAIN registry \cup {last'.alias}
            /\ \A b \in Aliases \ {last'.alias} :
                   get_connection(registry', b) = get_connection(registry, b)]_vars

C9_Witness ==
    /\ last.op = "add_connection"
    /\ last.args.db_type = "oracle"
    /\ Cardinality(DOMAIN registry) = 2
    /\ \E b \in DOMAIN registry : registry[b].db_type = "mysql"

(***************************************************************************)
(* C10.  remove_connection of an alias not in the registry answers false   *)
(* and changes nothing; of an alias in the registry it answers true, a     *)
(* get of the alias then answers None, and the other entries are as they   *)
(* were.  remove_database raises for an alias not in the registry.         *)
(***************************************************************************)
C10_RemoveFrame ==
    [][/\ (last'.op = "remove_connection" /\ last.op = "none") =>
            IF last'.alias \in DOMAIN registry
            THEN /\ last'.ret.bool = TRUE
                 /\ get_connection(registry', last'.alias) = None
                 /\ \A b \in Aliases \ {last'.alias} :
                        get_connection(registry', b) = get_connection(registry, b)
            ELSE /\ last'.ret.bool = FALSE
                 /\ registry' = registry
       /\ (last'.op = "remove_database" /\ last.op = "none") =>
            IF last'.alias \in DOMAIN registry
            THEN /\ last'.exc = NoExc
                 /\ get_connection(registry', last'.alias) = None
                 /\ \A b \in Aliases \ {last'.alias} :
                        get_connection(registry', b) = get_connection(registry, b)
            ELSE /\ last'.exc.type = ValueError
                 /\ registry' = registry]_vars

C10_Witness ==
    /\ last.op = "remove_connection"
    /\ last.ret = [bool |-> TRUE]
    /\ registry # EmptyTable

=============================================================================
